---- MODULE Spec2Model ----
(***************************************************************************)
(* Model of the H2Q hysteresis filter (tools/analyze_ibm_qec_fp_job.py,    *)
(* class H2QFilter) and of the population filter (src/h2q_mitigation.py,   *)
(* class H2QMitigator).                                                    *)
(*                                                                         *)
(* Numbers.  The EMA of a channel is a Python float.  It is modelled as an *)
(* integer number of units of 1/Scale, Scale being 10^ScaleDigits: with    *)
(* ema_alpha = 1/10 the value after n updates since the last reset is a    *)
(* multiple of 10^-n, so the model is exact while n <= ScaleDigits, and    *)
(* on longer runs it drops what lies below 10^-ScaleDigits, as a float     *)
(* drops what lies below its own precision.  Thresholds are given in       *)
(* thousandths.  For the configurations and call sequences explored here   *)
(* the float comparisons of the source and the ones made here agree.       *)
(*                                                                         *)
(* Channel indices are the source's 0 .. num_stabilizers-1; the            *)
(* observation list raw_syndrome is a sequence, so raw_syndrome[j] of the  *)
(* source is raw[j+1] here.                                                *)
(***************************************************************************)
EXTENDS Integers, Sequences, FiniteSets, TLC

VARIABLES flt, pre, ret, exc, lastOp, lastRaw, nUpd, nBad, qual, everReset,
          flt2, ret2, exc2, chan,
          mit, raw_counts, res, res2, pcB, raw_in, aliased,
          mit_b, res_b, margin, margin_b,
          dist, observable_qubits, obs, pcO,
          error_bit, runLen, nSwitch, nReset, sinceReset, sinceFall, firstReach,
          firstActive, allOnes,
          pcD, h2q_fp, h2q_fp_alone, total_measurements, carried,
          heap, inst, who, nCalls, other_pre

fvars == <<flt, pre, ret, exc, lastOp, lastRaw, nUpd, nBad, qual, everReset,
           flt2, ret2, exc2, chan>>

bvars == <<mit, raw_counts, res, res2, pcB, raw_in, aliased,
           mit_b, res_b, margin, margin_b>>

ovars == <<dist, observable_qubits, obs, pcO>>

rvars == <<error_bit, runLen, nSwitch, nReset, sinceReset, sinceFall, firstReach,
           firstActive, allOnes>>

dvars == <<pcD, h2q_fp, h2q_fp_alone, total_measurements, carried>>

hvars == <<heap, inst, who, nCalls, other_pre>>

xvars == <<rvars, dvars, hvars>>

vars == <<fvars, bvars, ovars, xvars>>

-----------------------------------------------------------------------------
(* Bounds of the model *)

\* update calls explored after construction or after a reset
MaxUpdates == 4

\* wrong-length update calls explored after construction or after a reset
MaxBadCalls == 1

\* entries of a histogram given to the population filter
MaxKeys == 2

\* largest count of an entry of such a histogram
MaxCount == 3

\* update calls explored, after construction or after a reset, when two
\* filters are run side by side on different observations
MaxIndepUpdates == 3

-----------------------------------------------------------------------------
(* Program constants *)

\* self.num_stabilizers = 2
num_stabilizers == 2

\* self.ema_alpha = 0.1, kept as its inverse
ema_alpha_inv == 10

-----------------------------------------------------------------------------
(* Arithmetic helpers *)

RECURSIVE Pow10(_)
Pow10(n) == IF n = 0 THEN 1 ELSE 10 * Pow10(n - 1)

\* decimal digits kept of a probability
ScaleDigits == 8

\* one unit of probability, in EMA units
Scale == Pow10(ScaleDigits)

\* a threshold given in thousandths, in EMA units
Thr(t) == t * (Scale \div 1000)

Channels == 0 .. (num_stabilizers - 1)

INACTIVE == 0
ACTIVE == 1

Bits == {0, 1}

\* the value of ret when the call raised instead of returning
NoRet == <<>>

-----------------------------------------------------------------------------
(* H2QFilter *)

\* H2QFilter.__init__: no argument is validated
H2QFilter(theta_on, theta_off, tau) ==
  [ theta_on        |-> theta_on,
    theta_off       |-> theta_off,
    tau             |-> tau,
    num_stabilizers |-> num_stabilizers,
    state           |-> [j \in Channels |-> 0],
    dwell           |-> [j \in Channels |-> 0],
    ema_alpha_inv   |-> ema_alpha_inv,
    ema             |-> [j \in Channels |-> 0] ]

\* reset that forgets the EMA list
reset_keeps_ema(f) ==
  [f EXCEPT !.state = [j \in 0 .. (f.num_stabilizers - 1) |-> 0],
            !.dwell = [j \in 0 .. (f.num_stabilizers - 1) |-> 0]]

\* H2QFilter.reset: the three lists are replaced, nothing else is touched
reset(f) ==
  [f EXCEPT !.state = [j \in 0 .. (f.num_stabilizers - 1) |-> 0],
            !.dwell = [j \in 0 .. (f.num_stabilizers - 1) |-> 0],
            !.ema   = [j \in 0 .. (f.num_stabilizers - 1) |-> 0]]

\* self.ema[j] = (1 - self.ema_alpha) * self.ema[j] + self.ema_alpha * bit
ema_update(f, old, bit) ==
  ((f.ema_alpha_inv - 1) * old + bit * Scale) \div f.ema_alpha_inv

\* first loop of update: enumerate(raw_syndrome) assigns ema[j] for every j
\* the list has; an index past the end of self.ema raises IndexError after the
\* earlier assignments were made
ema_loop(f, raw) ==
  [j \in Channels |->
     IF j < Len(raw) THEN ema_update(f, f.ema[j], raw[j + 1]) ELSE f.ema[j]]

ema_loop_raises(f, raw) == Len(raw) > f.num_stabilizers

\* INACTIVE branch that activates one qualifying update early
inactive_branch_early(f, P, d) ==
  IF P >= Thr(f.theta_on)
    THEN IF d + 2 >= f.tau
           THEN [state |-> 1, dwell |-> 0]
           ELSE [state |-> 0, dwell |-> d + 1]
    ELSE [state |-> 0, dwell |-> 0]

\* INACTIVE branch that never counts a qualifying update
inactive_branch_no_count(f, P, d) ==
  IF P >= Thr(f.theta_on)
    THEN IF d >= f.tau
           THEN [state |-> 1, dwell |-> 0]
           ELSE [state |-> 0, dwell |-> d]
    ELSE [state |-> 0, dwell |-> 0]

\* INACTIVE branch whose else counts the dwell down
inactive_branch_countdown(f, P, d) ==
  IF P >= Thr(f.theta_on)
    THEN IF d + 1 >= f.tau
           THEN [state |-> 1, dwell |-> 0]
           ELSE [state |-> 0, dwell |-> d + 1]
    ELSE [state |-> 0, dwell |-> d - 1]

\* INACTIVE branch that activates without clearing the dwell count
inactive_branch_keeps_dwell(f, P, d) ==
  IF P >= Thr(f.theta_on)
    THEN IF d + 1 >= f.tau
           THEN [state |-> 1, dwell |-> d + 1]
           ELSE [state |-> 0, dwell |-> d + 1]
    ELSE [state |-> 0, dwell |-> 0]

\* INACTIVE branch without its else: an interruption keeps the dwell count
inactive_branch_no_interrupt(f, P, d) ==
  IF P >= Thr(f.theta_on)
    THEN IF d + 1 >= f.tau
           THEN [state |-> 1, dwell |-> 0]
           ELSE [state |-> 0, dwell |-> d + 1]
    ELSE [state |-> 0, dwell |-> d]

\* INACTIVE branch of the second loop, for one channel: P is the channel's
\* EMA, d its dwell; the result is the channel's new state and dwell
inactive_branch(f, P, d) ==
  IF P >= Thr(f.theta_on)
    THEN IF d + 1 >= f.tau
           THEN [state |-> 1, dwell |-> 0]
           ELSE [state |-> 0, dwell |-> d + 1]
    ELSE [state |-> 0, dwell |-> 0]

\* ACTIVE branch whose fall leaves the dwell count one short of tau
active_branch_primed(f, P, d) ==
  IF P <= Thr(f.theta_off)
    THEN [state |-> 0, dwell |-> f.tau - 1]
    ELSE [state |-> 1, dwell |-> d]

\* ACTIVE branch with one threshold: falls as soon as P is below theta_on
active_branch_single_threshold(f, P, d) ==
  IF P < Thr(f.theta_on)
    THEN [state |-> 0, dwell |-> 0]
    ELSE [state |-> 1, dwell |-> d]

\* ACTIVE branch that falls only strictly below theta_off
active_branch_strict(f, P, d) ==
  IF P < Thr(f.theta_off)
    THEN [state |-> 0, dwell |-> 0]
    ELSE [state |-> 1, dwell |-> d]

\* ACTIVE branch of the second loop, for one channel
active_branch(f, P, d) ==
  IF P <= Thr(f.theta_off)
    THEN [state |-> 0, dwell |-> 0]
    ELSE [state |-> 1, dwell |-> d]

\* loop body that reads channel 0's EMA for every channel
channel_logic_coupled(f, e, j) ==
  IF f.state[j] = 0
    THEN inactive_branch(f, e[0], f.dwell[j])
    ELSE active_branch(f, e[0], f.dwell[j])

\* body of the second loop for channel j, reading the EMA list e
channel_logic(f, e, j) ==
  IF f.state[j] = 0
    THEN inactive_branch(f, e[j], f.dwell[j])
    ELSE active_branch(f, e[j], f.dwell[j])

\* update with its two loops exchanged: the threshold logic reads the EMA
\* list of before the call
update_logic_first(f, raw) ==
  LET e == ema_loop(f, raw) IN
  IF ema_loop_raises(f, raw)
    THEN [f   |-> [f EXCEPT !.ema = e],
          ret |-> NoRet,
          exc |-> "IndexError"]
    ELSE LET c == [j \in Channels |-> channel_logic(f, f.ema, j)] IN
         [f   |-> [f EXCEPT !.ema = e,
                            !.state = [j \in Channels |-> c[j].state],
                            !.dwell = [j \in Channels |-> c[j].dwell]],
          ret |-> [j \in Channels |-> c[j].state],
          exc |-> "none"]

\* H2QFilter.update: the filter after the call, the list it returns and the
\* exception it raises
update(f, raw) ==
  LET e == ema_loop(f, raw) IN
  IF ema_loop_raises(f, raw)
    THEN [f   |-> [f EXCEPT !.ema = e],
          ret |-> NoRet,
          exc |-> "IndexError"]
    ELSE LET c == [j \in Channels |-> channel_logic(f, e, j)] IN
         [f   |-> [f EXCEPT !.ema = e,
                            !.state = [j \in Channels |-> c[j].state],
                            !.dwell = [j \in Channels |-> c[j].dwell]],
          ret |-> [j \in Channels |-> c[j].state],
          exc |-> "none"]

-----------------------------------------------------------------------------
(* H2QMitigator                                                             *)
(*                                                                          *)
(* A dict is a sequence of entries [k |-> key, v |-> value] in insertion    *)
(* order, keys distinct.  A value is a rational [n |-> , d |-> ] in lowest  *)
(* terms, d > 0: a count c is c/1, and the float quotients of the source    *)
(* are exact quotients.  theta_off is given in thousandths.                 *)

RECURSIVE Gcd(_, _)
Gcd(a, b) == IF b = 0 THEN a ELSE Gcd(b, a % b)

Rat(n, d) ==
  IF n = 0 THEN [n |-> 0, d |-> 1]
  ELSE LET g == Gcd(n, d) IN [n |-> n \div g, d |-> d \div g]

RAdd(a, b) == Rat(a.n * b.d + b.n * a.d, a.d * b.d)

\* a / b for b > 0
RDiv(a, b) == Rat(a.n * b.d, a.d * b.n)

RLess(a, b) == a.n * b.d < b.n * a.d

\* sum(d.values())
RECURSIVE SumValues(_)
SumValues(d) ==
  IF Len(d) = 0 THEN Rat(0, 1) ELSE RAdd(d[1].v, SumValues(Tail(d)))

\* x put into a list sorted by value, largest first, behind the entries
\* that are not smaller (the sort is stable)
RECURSIVE InsertDesc(_, _)
InsertDesc(sorted, x) ==
  IF Len(sorted) = 0 THEN <<x>>
  ELSE IF RLess(sorted[1].v, x.v) THEN <<x>> \o sorted
  ELSE <<sorted[1]>> \o InsertDesc(Tail(sorted), x)

\* the items left in insertion order
unsorted_items(d) == d

\* sorted(raw_counts.items(), key=lambda x: x[1], reverse=True)
RECURSIVE SortedDesc(_)
SortedDesc(d) ==
  IF Len(d) = 0 THEN <<>>
  ELSE InsertDesc(SortedDesc(SubSeq(d, 1, Len(d) - 1)), d[Len(d)])

\* H2QMitigator.__init__: no argument is validated
H2QMitigator(theta_on, theta_off, tau) ==
  [theta_on |-> theta_on, theta_off |-> theta_off, tau |-> tau]

\* retention test against theta_on
retained_theta_on(self, count, max_count) ==
  LET relative_prob == RDiv(count, max_count) IN
  relative_prob.n * 1000 > self.theta_on * relative_prob.d

\* retention test with >= in place of >
retained_non_strict(self, count, max_count) ==
  LET relative_prob == RDiv(count, max_count) IN
  relative_prob.n * 1000 >= self.theta_off * relative_prob.d

\* relative_prob = count / max_count; if relative_prob > self.theta_off
retained(self, count, max_count) ==
  LET relative_prob == RDiv(count, max_count) IN
  relative_prob.n * 1000 > self.theta_off * relative_prob.d

Raised(e) == [exc |-> e, val |-> <<>>]

Returned(d) == [exc |-> "none", val |-> d]

\* H2QMitigator.minimize_free_energy: the dict it returns or the exception
\* it raises.  Counts are not negative, so max_count > 0 when the total is.
minimize_free_energy(self, counts) ==
  LET total_shots == SumValues(counts) IN
  IF Len(counts) = 0 THEN Raised("IndexError")
  ELSE
    LET sorted_counts == SortedDesc(counts)
        max_count == sorted_counts[1].v
    IN
    IF total_shots.n = 0 THEN Raised("ZeroDivisionError")
    ELSE
      LET filtered_dist ==
            SelectSeq(counts, LAMBDA x : retained(self, x.v, max_count))
          new_total == SumValues(filtered_dist)
      IN
      IF Len(filtered_dist) > 0 /\ new_total.n = 0
        THEN Raised("ZeroDivisionError")
        ELSE Returned([i \in 1 .. Len(filtered_dist) |->
                         [k |-> filtered_dist[i].k,
                          v |-> RDiv(filtered_dist[i].v, new_total)]])

RMul(a, b) == Rat(a.n * b.n, a.d * b.d)

RSub(a, b) == Rat(a.n * b.d - b.n * a.d, a.d * b.d)

RECURSIVE IsPow2(_)
IsPow2(m) == m = 1 \/ (m > 1 /\ m % 2 = 0 /\ IsPow2(m \div 2))

\* the exponent k of m = 2^k
RECURSIVE Log2Nat(_)
Log2Nat(m) == IF m <= 1 THEN 0 ELSE 1 + Log2Nat(m \div 2)

\* the positive rationals whose base-2 logarithm is an integer
HasExactLog2(p) ==
  p.n > 0 /\ ((p.d = 1 /\ IsPow2(p.n)) \/ (p.n = 1 /\ IsPow2(p.d)))

\* np.log2 on a power of two
log2(p) ==
  IF p.d = 1 THEN Rat(Log2Nat(p.n), 1) ELSE Rat(0 - Log2Nat(p.d), 1)

\* the dicts on which every logarithm taken by
\* calculate_confidence_intervals is an integer
ExactLog2Domain(d) ==
  /\ Len(d) = 0 \/ IsPow2(Len(d))
  /\ \A i \in 1 .. Len(d) : d[i].v.n = 0 \/ HasExactLog2(d[i].v)

\* probs = list(mitigated_probs.values())
values(d) == [i \in 1 .. Len(d) |-> d[i].v]

\* sum(p * np.log2(p) for p in probs if p > 0)
RECURSIVE PLogPSum(_)
PLogPSum(probs) ==
  IF Len(probs) = 0 THEN Rat(0, 1)
  ELSE LET p == probs[Len(probs)]
           rest == PLogPSum(SubSeq(probs, 1, Len(probs) - 1)) IN
       IF p.n > 0 THEN RAdd(rest, RMul(p, log2(p))) ELSE rest

entropy(probs) == RSub(Rat(0, 1), PLogPSum(probs))

\* max_entropy = np.log2(len(probs)) if len(probs) > 1 else 1.0
max_entropy(probs) ==
  IF Len(probs) > 1 THEN log2(Rat(Len(probs), 1)) ELSE Rat(1, 1)

\* confidence = 1.0 - (entropy / max_entropy) if max_entropy > 0 else 1.0
confidence(probs) ==
  IF max_entropy(probs).n > 0
  THEN RSub(Rat(1, 1), RDiv(entropy(probs), max_entropy(probs)))
  ELSE Rat(1, 1)

\* the margin taken as confidence * 0.5
calculate_confidence_intervals_unscaled(self, mitigated_probs) ==
  LET probs == values(mitigated_probs) IN
  IF Len(probs) = 0 THEN <<Rat(0, 1), Rat(1, 1)>>
  ELSE LET error_margin == RMul(confidence(probs), Rat(1, 2)) IN
       <<error_margin, error_margin>>

\* H2QMitigator.calculate_confidence_intervals: (error_margin, error_margin),
\* and (0.0, 1.0) for an empty dict
calculate_confidence_intervals(self, mitigated_probs) ==
  LET probs == values(mitigated_probs) IN
  IF Len(probs) = 0 THEN <<Rat(0, 1), Rat(1, 1)>>
  ELSE LET error_margin ==
             RMul(RSub(Rat(1, 1), confidence(probs)), Rat(1, 2)) IN
       <<error_margin, error_margin>>

NoMargin == <<>>

\* the call that deletes the dropped entries from its argument
raw_counts_pruned_in_place(self, counts) ==
  IF Len(counts) = 0 \/ SumValues(counts).n = 0 THEN counts
  ELSE SelectSeq(counts,
                 LAMBDA x : retained(self, x.v, SortedDesc(counts)[1].v))

\* the argument dict after minimize_free_energy: raw_counts is only read
\* (sum, sorted, items), on every path
raw_counts_after_call(self, counts) == counts

\* whether the dict returned is the argument itself: mitigated_probs is
\* built by a dict comprehension
result_aliases_input(self, counts) == FALSE

\* H2QMitigator.apply_correction
apply_correction(self, counts) == minimize_free_energy(self, counts)

\* ---- observables (run_benchmark, run_vqe_h2_benchmark, experiment_runner)

\* the characters of a bitstring, first character first
chars(bitstring) ==
  CASE bitstring = "00" -> <<0, 0>>
    [] bitstring = "01" -> <<0, 1>>
    [] bitstring = "10" -> <<1, 0>>
    [] bitstring = "11" -> <<1, 1>>

\* the bit read from the left: bitstring[q]
bit_from_left(bitstring, q) == chars(bitstring)[q + 1]

\* bit = int(bitstring[-(q+1)])
bit_from_right(bitstring, q) ==
  chars(bitstring)[Len(chars(bitstring)) - q]

\* (-1) ** bit
sign(bit) == IF bit = 0 THEN 1 ELSE -1

\* the loop over observable_qubits: an index q >= len(bitstring) is skipped
RECURSIVE parity_of(_, _)
parity_of(bitstring, qs) ==
  IF Len(qs) = 0 THEN 1
  ELSE LET q == qs[Len(qs)]
           rest == parity_of(bitstring, SubSeq(qs, 1, Len(qs) - 1)) IN
       IF q < Len(chars(bitstring))
       THEN rest * sign(bit_from_right(bitstring, q))
       ELSE rest

\* expectation += parity * count, over counts.items()
RECURSIVE expectation_sum(_, _)
expectation_sum(d, qs) ==
  IF Len(d) = 0 THEN Rat(0, 1)
  ELSE LET x == d[Len(d)] IN
       RAdd(expectation_sum(SubSeq(d, 1, Len(d) - 1), qs),
            RMul(Rat(parity_of(x.k, qs), 1), x.v))

\* run_benchmark.compute_observable: (expectation, std_error), the second
\* component kept as its square variance / total
compute_observable(d, qs) ==
  LET total == SumValues(d) IN
  IF total.n = 0 THEN Returned(<<Rat(0, 1), Rat(1, 1)>>)
  ELSE LET expectation == RDiv(expectation_sum(d, qs), total)
           variance == RSub(Rat(1, 1), RMul(expectation, expectation)) IN
       Returned(<<expectation, RDiv(variance, total)>>)

\* parity = bitstring.count('1') % 2; val = 1 if parity == 0 else -1
RECURSIVE count_ones(_)
count_ones(cs) ==
  IF Len(cs) = 0 THEN 0 ELSE cs[Len(cs)] + count_ones(SubSeq(cs, 1, Len(cs) - 1))

\* experiment_runner.calculate_expectation: exp_val += val * prob
RECURSIVE calculate_expectation(_)
calculate_expectation(probs) ==
  IF Len(probs) = 0 THEN Rat(0, 1)
  ELSE LET x == probs[Len(probs)]
           val == IF count_ones(chars(x.k)) % 2 = 0 THEN 1 ELSE -1 IN
       RAdd(calculate_expectation(SubSeq(probs, 1, Len(probs) - 1)),
            RMul(Rat(val, 1), x.v))

\* run_vqe_h2_benchmark.compute_observable, its loop: expectation and the
\* running variance after the first i entries
RECURSIVE vqe_loop(_, _, _)
vqe_loop(d, total_shots, i) ==
  IF i = 0 THEN [expectation |-> Rat(0, 1), variance |-> Rat(0, 1)]
  ELSE LET acc == vqe_loop(d, total_shots, i - 1)
           cs == chars(d[i].k)
           parity == (IF Len(cs) >= 2 THEN cs[1] + cs[2] ELSE 0) % 2
           value == IF parity = 0 THEN Rat(1, 1) ELSE Rat(-1, 1)
           prob == RDiv(d[i].v, total_shots)
           expectation == RAdd(acc.expectation, RMul(value, prob))
           dev == RSub(value, expectation) IN
       [expectation |-> expectation,
        variance |-> RAdd(acc.variance, RMul(prob, RMul(dev, dev)))]

\* run_vqe_h2_benchmark.compute_observable: (expectation, std_error), the
\* second component kept as its square variance / total_shots
compute_observable_vqe(d, num_qubits) ==
  LET total_shots == SumValues(d) IN
  IF total_shots.n = 0 THEN Returned(<<Rat(0, 1), Rat(0, 1)>>)
  ELSE LET acc == vqe_loop(d, total_shots, Len(d)) IN
       Returned(<<acc.expectation, RDiv(acc.variance, total_shots)>>)

\* the observable's variables while the filter or the mitigator runs
ObservableIdle ==
  /\ dist = <<>>
  /\ observable_qubits = <<>>
  /\ obs = Returned(<<>>)
  /\ pcO = "idle"

\* the history kept of a run of measurements, before the run
RunIdle ==
  /\ error_bit = -1
  /\ runLen = 0
  /\ nSwitch = 0
  /\ nReset = 0
  /\ sinceReset = 0
  /\ sinceFall = [j \in Channels |-> -1]
  /\ firstReach = [j \in Channels |-> 0]
  /\ firstActive = [j \in Channels |-> 0]
  /\ allOnes = TRUE

\* analyze_circuit entered without the reset of its first line
h2q_filter_at_entry_no_reset(f) == f

\* analyze_circuit, its first statement: h2q_filter.reset()
h2q_filter_at_entry(f) == reset(f)

\* is_error_syndrome(syndrome_str): syndrome_str != "00"
is_error_syndrome(syndrome_str) == syndrome_str # "00"

\* if any(filtered): h2q_fp += 1
fp_after(count, filtered) ==
  IF \E j \in DOMAIN filtered : filtered[j] # 0 THEN count + 1 ELSE count

\* the driver's variables while it does not run
DriverIdle ==
  /\ pcD = "idle"
  /\ h2q_fp = 0
  /\ h2q_fp_alone = 0
  /\ total_measurements = 0
  /\ carried = FALSE

\* ---- filter instances as objects: an instance holds references to its
\* three lists, and the lists live in a heap

\* the list objects there is room for
ObjIds == 1 .. 9

InstanceNames == {"a", "b"}

\* the list object every [0] * n evaluates to when lists are shared
new_list_shared(taken) == 1

\* [0] * self.num_stabilizers: a list object no reference yet points to
new_list(taken) == CHOOSE i \in ObjIds \ taken : \A k \in ObjIds \ taken : i <= k

NoList == <<>>

\* the filter an instance is, its lists read through its references
view(h, o) ==
  [ theta_on        |-> o.theta_on,
    theta_off       |-> o.theta_off,
    tau             |-> o.tau,
    num_stabilizers |-> o.num_stabilizers,
    state           |-> h[o.state],
    dwell           |-> h[o.dwell],
    ema_alpha_inv   |-> o.ema_alpha_inv,
    ema             |-> h[o.ema] ]

\* the list objects referenced by the instances os
Referenced(os) == UNION {{o.state, o.dwell, o.ema} : o \in os}

\* the three assignments self.state = [0] * n, self.dwell = [0] * n,
\* self.ema = [0.0] * n of __init__ and of reset, on the instance o while the
\* instances others exist: each right-hand side is a new list object, and a
\* list no instance references any more is collected
assign_lists(h, o, others) ==
  LET keep == Referenced(others)
      s == new_list(keep \cup Referenced({o}))
      d == new_list(keep \cup Referenced({o}) \cup {s})
      e == new_list(keep \cup Referenced({o}) \cup {s, d})
      zeros == [j \in Channels |-> 0]
      o2 == [o EXCEPT !.state = s, !.dwell = d, !.ema = e] IN
  [ obj  |-> o2,
    heap |-> [i \in ObjIds |->
                IF i \in {s, d, e} THEN zeros
                ELSE IF i \in keep THEN h[i]
                ELSE NoList] ]

\* H2QFilter(theta_on, theta_off, tau) while the instances others exist
construct(h, theta_on, theta_off, tau, others) ==
  assign_lists(h,
               [ theta_on |-> theta_on, theta_off |-> theta_off, tau |-> tau,
                 num_stabilizers |-> num_stabilizers,
                 ema_alpha_inv |-> ema_alpha_inv,
                 state |-> 0, dwell |-> 0, ema |-> 0 ],
               others)

\* o.update(raw): the item assignments self.ema[j] = ..., self.dwell[j] = ...
\* and self.state[j] = ... write into the list objects o references
update_on(h, o, raw) ==
  LET r == update(view(h, o), raw)
      h1 == [h EXCEPT ![o.ema] = r.f.ema]
      h2 == [h1 EXCEPT ![o.dwell] = r.f.dwell]
      h3 == [h2 EXCEPT ![o.state] = r.f.state] IN
  [heap |-> h3, ret |-> r.ret, exc |-> r.exc]

\* the heap's variables while no instance pair is modelled
HeapIdle ==
  /\ heap = [i \in ObjIds |-> NoList]
  /\ inst = <<>>
  /\ who = "none"
  /\ nCalls = 0
  /\ other_pre = <<>>

ExtrasIdle == RunIdle /\ DriverIdle /\ HeapIdle

\* the mitigator's variables while only the hysteresis filter runs
MitigatorIdle ==
  /\ mit = H2QMitigator(800, 300, 10)
  /\ raw_counts = <<>>
  /\ raw_in = <<>>
  /\ aliased = FALSE
  /\ mit_b = H2QMitigator(800, 300, 10)
  /\ res_b = Returned(<<>>)
  /\ margin = NoMargin
  /\ margin_b = NoMargin
  /\ res = Returned(<<>>)
  /\ res2 = Returned(<<>>)
  /\ pcB = "idle"

-----------------------------------------------------------------------------
(* Inputs *)

\* constructor arguments explored: thresholds in thousandths.  The last two
\* violate theta_off < theta_on and tau >= 1; the constructor takes them.
FilterConfigs ==
  { <<100, 85, 1>>, <<100, 85, 2>>, <<100, 85, 3>>,
    <<190, 171, 1>>,
    <<100, 190, 1>>, <<100, 85, 0>> }

SeqsOfLen(n) == [1 .. n -> Bits]

ValidRaw == SeqsOfLen(num_stabilizers)

BadRaw == UNION {SeqsOfLen(n) : n \in (0 .. (num_stabilizers + 1)) \ {num_stabilizers}}

-----------------------------------------------------------------------------
(* History of a channel, for the dwell claims: the number of consecutive    *)
(* completed updates that left the channel's EMA >= theta_on, counted since *)
(* the channel was last reset, found ACTIVE, or interrupted.                *)

qual_after(f, g, q) ==
  [j \in Channels |->
     IF f.state[j] = ACTIVE THEN 0
     ELSE IF g.ema[j] >= Thr(g.theta_on) THEN q[j] + 1
     ELSE 0]

-----------------------------------------------------------------------------
(* One filter: flt; pre is the filter as it was before the last call, ret   *)
(* and exc are what the last call returned or raised.  Beside it runs a     *)
(* second instance, flt2, that is constructed anew whenever the first is    *)
(* reset and is given the same calls.                                       *)

Init ==
  \E c \in FilterConfigs :
    /\ flt = H2QFilter(c[1], c[2], c[3])
    /\ flt2 = H2QFilter(c[1], c[2], c[3])
    /\ pre = H2QFilter(c[1], c[2], c[3])
    /\ ret = NoRet /\ ret2 = NoRet
    /\ exc = "none" /\ exc2 = "none"
    /\ lastOp = "init"
    /\ lastRaw = <<>>
    /\ nUpd = 0 /\ nBad = 0
    /\ qual = [j \in Channels |-> 0]
    /\ everReset = FALSE
    /\ chan = 0
    /\ MitigatorIdle
    /\ ObservableIdle
    /\ ExtrasIdle

DoUpdate(raw) ==
  LET r == update(flt, raw)
      r2 == update(flt2, raw) IN
  /\ flt' = r.f /\ ret' = r.ret /\ exc' = r.exc
  /\ pre' = flt
  /\ flt2' = r2.f /\ ret2' = r2.ret /\ exc2' = r2.exc
  /\ lastOp' = "update"
  /\ lastRaw' = raw
  /\ nUpd' = nUpd + 1
  /\ qual' = IF r.exc = "none" THEN qual_after(flt, r.f, qual) ELSE qual
  /\ UNCHANGED <<everReset, chan>>
  /\ UNCHANGED <<bvars, ovars, xvars>>

Update ==
  /\ nUpd < MaxUpdates
  /\ \E raw \in ValidRaw : DoUpdate(raw) /\ nBad' = nBad

UpdateWrongLength ==
  /\ nUpd < MaxUpdates
  /\ nBad < MaxBadCalls
  /\ \E raw \in BadRaw : DoUpdate(raw) /\ nBad' = nBad + 1

Reset ==
  /\ flt' = reset(flt)
  /\ pre' = flt
  /\ flt2' = H2QFilter(flt.theta_on, flt.theta_off, flt.tau)
  /\ ret' = NoRet /\ ret2' = NoRet
  /\ exc' = "none" /\ exc2' = "none"
  /\ lastOp' = "reset"
  /\ lastRaw' = <<>>
  /\ nUpd' = 0 /\ nBad' = 0
  /\ qual' = [j \in Channels |-> 0]
  /\ everReset' = TRUE
  /\ UNCHANGED chan
  /\ UNCHANGED <<bvars, ovars, xvars>>

Next == Update \/ UpdateWrongLength \/ Reset

Spec == Init /\ [][Next]_vars

-----------------------------------------------------------------------------
(* Claims about the hysteresis filter *)

Completed == lastOp = "update" /\ exc = "none"

InDeadband(f, j) ==
  /\ f.ema[j] > Thr(f.theta_off)
  /\ f.ema[j] < Thr(f.theta_on)

\* C1 (hysteresis retention): with theta_off < theta_on, a channel that was
\* ACTIVE before an update call is ACTIVE after it whenever the EMA the call
\* leaves is strictly above theta_off, also when that EMA is below theta_on.
\* By induction over the calls, an ACTIVE channel stays ACTIVE for as long as
\* its EMA stays above theta_off.
C1_Retention ==
  (lastOp = "update" /\ flt.theta_off < flt.theta_on) =>
    \A j \in Channels :
      (pre.state[j] = ACTIVE /\ flt.ema[j] > Thr(flt.theta_off))
        => flt.state[j] = ACTIVE

\* an update that returned, and left an ACTIVE channel ACTIVE in the deadband
C1_Witness ==
  /\ Completed
  /\ flt.theta_off < flt.theta_on
  /\ \E j \in Channels :
       /\ pre.state[j] = ACTIVE
       /\ InDeadband(flt, j)
       /\ flt.state[j] = ACTIVE

\* C2 (rising-edge dwell confirmation): for tau >= 1, at an update that
\* returns, an INACTIVE channel becomes ACTIVE if and only if this is the
\* tau-th consecutive such update that left its EMA >= theta_on, counted
\* since the channel was last reset, deactivated or interrupted; and an
\* update that leaves the EMA of an INACTIVE channel below theta_on leaves
\* its dwell_count 0.
C2_RisingEdge ==
  (Completed /\ flt.tau >= 1) =>
    \A j \in Channels :
      pre.state[j] = INACTIVE =>
        /\ (flt.state[j] = ACTIVE) <=> (qual[j] = flt.tau)
        /\ (flt.ema[j] < Thr(flt.theta_on)) => flt.dwell[j] = 0

\* tau = 2 and the observations 1, 0, 1, 1 on a channel: one qualifying
\* update, an interruption, and activation on the second of the next two
C2_Witness ==
  /\ Completed
  /\ flt.tau = 2
  /\ nUpd = 4
  /\ \E j \in Channels :
       /\ pre.state[j] = INACTIVE
       /\ flt.state[j] = ACTIVE
       /\ flt.ema[j] = 2629 * (Scale \div 10000)

C4_WrongLengthRejected ==
  (lastOp = "update" /\ Len(lastRaw) # flt.num_stabilizers) =>
    /\ exc = "InvalidInputShape"
    /\ flt = pre

\* C5 (as claimed): no filter instance exists with theta_off >= theta_on or
\* tau < 1.
C5_ConfigurationValid ==
  /\ flt.theta_off < flt.theta_on
  /\ flt.tau >= 1

AllZero(xs) == \A j \in Channels : xs[j] = 0

\* C6: reset leaves every channel INACTIVE with dwell_count 0 and EMA 0,
\* raises nothing and keeps theta_on, theta_off, tau, ema_alpha and the
\* channel count; and once the filter has been reset, every update call
\* returns or raises what it does on a filter constructed with the same
\* arguments at the time of the reset and given the same calls since.
C6_Reset ==
  /\ lastOp = "reset" =>
       /\ AllZero(flt.state) /\ AllZero(flt.dwell) /\ AllZero(flt.ema)
       /\ exc = "none"
       /\ flt.theta_on = pre.theta_on
       /\ flt.theta_off = pre.theta_off
       /\ flt.tau = pre.tau
       /\ flt.ema_alpha_inv = pre.ema_alpha_inv
       /\ flt.num_stabilizers = pre.num_stabilizers
  /\ (everReset /\ lastOp = "update") => (ret = ret2 /\ exc = exc2)

\* reset of a filter with an ACTIVE channel and non-zero EMAs
C6_Witness ==
  /\ lastOp = "reset"
  /\ \E j \in Channels : pre.state[j] = ACTIVE /\ pre.ema[j] > 0
  /\ AllZero(flt.state) /\ AllZero(flt.ema)

-----------------------------------------------------------------------------
(* Two filters with the same configuration, run side by side on observation *)
(* lists of the right length that agree on channel chan and are otherwise   *)
(* free.                                                                    *)

IndepConfigs == { <<100, 85, 1>>, <<100, 85, 2>>, <<190, 171, 1>> }

InitIndep ==
  \E c \in IndepConfigs, ch \in Channels :
    /\ flt = H2QFilter(c[1], c[2], c[3])
    /\ flt2 = H2QFilter(c[1], c[2], c[3])
    /\ pre = H2QFilter(c[1], c[2], c[3])
    /\ ret = NoRet /\ ret2 = NoRet
    /\ exc = "none" /\ exc2 = "none"
    /\ lastOp = "init"
    /\ lastRaw = <<>>
    /\ nUpd = 0 /\ nBad = 0
    /\ qual = [j \in Channels |-> 0]
    /\ everReset = FALSE
    /\ chan = ch
    /\ MitigatorIdle
    /\ ObservableIdle
    /\ ExtrasIdle

IndepUpdate ==
  /\ nUpd < MaxIndepUpdates
  /\ \E r1 \in ValidRaw, r2 \in ValidRaw :
       /\ r1[chan + 1] = r2[chan + 1]
       /\ LET a == update(flt, r1)
              b == update(flt2, r2) IN
          /\ flt' = a.f /\ ret' = a.ret /\ exc' = a.exc
          /\ flt2' = b.f /\ ret2' = b.ret /\ exc2' = b.exc
          /\ qual' = qual_after(flt, a.f, qual)
       /\ lastRaw' = r1
  /\ pre' = flt
  /\ lastOp' = "update"
  /\ nUpd' = nUpd + 1
  /\ UNCHANGED <<nBad, everReset, chan>>
  /\ UNCHANGED <<bvars, ovars, xvars>>

IndepReset ==
  /\ flt' = reset(flt)
  /\ flt2' = reset(flt2)
  /\ pre' = flt
  /\ ret' = NoRet /\ ret2' = NoRet
  /\ exc' = "none" /\ exc2' = "none"
  /\ lastOp' = "reset"
  /\ lastRaw' = <<>>
  /\ nUpd' = 0
  /\ qual' = [j \in Channels |-> 0]
  /\ everReset' = TRUE
  /\ UNCHANGED <<nBad, chan>>
  /\ UNCHANGED <<bvars, ovars, xvars>>

NextIndep == IndepUpdate \/ IndepReset

SpecIndep == InitIndep /\ [][NextIndep]_vars

\* C7 (per-channel independence): two runs whose observation lists agree on
\* channel chan at every step agree on that channel's state, dwell_count,
\* EMA and returned bit at every step, whatever the other channel is given.
C7_ChannelIndependent ==
  /\ flt.state[chan] = flt2.state[chan]
  /\ flt.dwell[chan] = flt2.dwell[chan]
  /\ flt.ema[chan] = flt2.ema[chan]
  /\ lastOp = "update" => ret[chan] = ret2[chan]

\* channel chan is ACTIVE in both runs while another channel differs
C7_Witness ==
  /\ lastOp = "update"
  /\ flt.state[chan] = ACTIVE
  /\ flt2.state[chan] = ACTIVE
  /\ \E k \in Channels \ {chan} :
       /\ flt.state[k] # flt2.state[k]
       /\ flt.ema[k] # flt2.ema[k]

-----------------------------------------------------------------------------
(* The population filter applied to a histogram, and then to its own        *)
(* output.                                                                  *)

Labels == {"00", "01", "10", "11"}

Entry(k, c) == [k |-> k, v |-> Rat(c, 1)]

\* dicts with n distinct keys, in every insertion order
DictsOfLen(n) ==
  { d \in [1 .. n -> {Entry(k, c) : k \in Labels, c \in 0 .. MaxCount}] :
      \A i, j \in 1 .. n : i # j => d[i].k # d[j].k }

\* the histograms of the specification's examples
ExampleHistograms ==
  { <<Entry("00", 1000), Entry("01", 5), Entry("10", 3), Entry("11", 1)>>,
    <<Entry("00", 100), Entry("11", 90)>>,
    <<Entry("00", 1), Entry("01", 1), Entry("10", 1), Entry("11", 1)>>,
    <<Entry("00", 2), Entry("01", 1), Entry("10", 1), Entry("11", 0)>> }

\* the same histogram, two labels tied for the maximum count above a rare
\* one, stored in each of its insertion orders
TiedHistograms ==
  LET es == {Entry("00", 3), Entry("11", 3), Entry("01", 1)} IN
  { d \in [1 .. 3 -> es] : \A i, j \in 1 .. 3 : i # j => d[i] # d[j] }

Histograms ==
  UNION {DictsOfLen(n) : n \in 0 .. MaxKeys}
    \cup ExampleHistograms \cup TiedHistograms

\* theta_off given to the constructor, in thousandths
ThetaOffs == {-100, 0, 300, 500, 1000}

\* theta_on given to the constructor, in thousandths
ThetaOns == {800, 300}

\* tau given to the constructor
Taus == {10, 5}

\* the instances that differ from m only in theta_on and/or tau
DifferingInstances(m) ==
  {H2QMitigator(on, m.theta_off, tau) : on \in ThetaOns, tau \in Taus} \ {m}

\* the filter's variables while only the mitigator runs
FilterIdle ==
  /\ flt = H2QFilter(800, 300, 10)
  /\ flt2 = H2QFilter(800, 300, 10)
  /\ pre = H2QFilter(800, 300, 10)
  /\ ret = NoRet /\ ret2 = NoRet
  /\ exc = "none" /\ exc2 = "none"
  /\ lastOp = "idle"
  /\ lastRaw = <<>>
  /\ nUpd = 0 /\ nBad = 0
  /\ qual = [j \in Channels |-> 0]
  /\ everReset = FALSE
  /\ chan = 0

InitB ==
  /\ FilterIdle
  /\ ObservableIdle
  /\ ExtrasIdle
  /\ \E on \in ThetaOns, off \in ThetaOffs : mit = H2QMitigator(on, off, 10)
  /\ raw_counts \in Histograms
  /\ mit_b \in DifferingInstances(mit)
  /\ raw_in = raw_counts
  /\ aliased = FALSE
  /\ res = Returned(<<>>)
  /\ res2 = Returned(<<>>)
  /\ res_b = Returned(<<>>)
  /\ margin = NoMargin
  /\ margin_b = NoMargin
  /\ pcB = "start"

\* res = mitigator.minimize_free_energy(raw_counts)
Filter ==
  /\ pcB = "start"
  /\ res' \in {minimize_free_energy(mit, raw_counts),
              apply_correction(mit, raw_counts)}
  /\ raw_counts' = raw_counts_after_call(mit, raw_counts)
  /\ aliased' = result_aliases_input(mit, raw_counts)
  /\ res_b' = minimize_free_energy(mit_b, raw_counts)
  /\ pcB' = "filtered"
  /\ UNCHANGED <<mit, res2, raw_in, mit_b, margin, margin_b>>
  /\ UNCHANGED <<fvars, ovars, xvars>>

\* res2 = mitigator.minimize_free_energy(res)
Refilter ==
  /\ pcB = "filtered"
  /\ res.exc = "none"
  /\ res2' = minimize_free_energy(mit, res.val)
  /\ pcB' = "refiltered"
  /\ UNCHANGED <<mit, raw_counts, res, raw_in, aliased>>
  /\ UNCHANGED <<mit_b, res_b, margin, margin_b>>
  /\ UNCHANGED <<fvars, ovars, xvars>>

\* error_margin, _ = mitigator.calculate_confidence_intervals(res), on each
\* of the two instances
Confidence ==
  /\ pcB = "filtered"
  /\ res.exc = "none" /\ res_b.exc = "none"
  /\ ExactLog2Domain(res.val) /\ ExactLog2Domain(res_b.val)
  /\ margin' = calculate_confidence_intervals(mit, res.val)
  /\ margin_b' = calculate_confidence_intervals(mit_b, res_b.val)
  /\ pcB' = "measured"
  /\ UNCHANGED <<mit, raw_counts, res, res2, raw_in, aliased, mit_b, res_b>>
  /\ UNCHANGED <<fvars, ovars, xvars>>

NextB == Filter \/ Refilter \/ Confidence

SpecB == InitB /\ [][NextB]_vars

Keys(d) == {d[i].k : i \in 1 .. Len(d)}

\* the histogram's counts as integers, their total and their maximum
Count(i) == raw_counts[i].v.n

RECURSIVE TotalUpTo(_)
TotalUpTo(i) == IF i = 0 THEN 0 ELSE Count(i) + TotalUpTo(i - 1)

Total == TotalUpTo(Len(raw_counts))

MaxOfCounts ==
  CHOOSE m \in {Count(i) : i \in 1 .. Len(raw_counts)} :
    \A i \in 1 .. Len(raw_counts) : Count(i) <= m

Filtered == pcB \in {"filtered", "refiltered"}

\* C8 (retention rule): for a histogram with total > 0 the filter returns,
\* and a label is a key of the result if and only if it is a key of the
\* histogram with count / max_count > theta_off, strictly: an entry whose
\* relative population equals theta_off is dropped.
C8_RetentionRule ==
  (Filtered /\ Total > 0) =>
    /\ res.exc = "none"
    /\ \A l \in Labels :
         (l \in Keys(res.val)) <=>
           \E i \in 1 .. Len(raw_counts) :
             /\ raw_counts[i].k = l
             /\ Count(i) * 1000 > mit.theta_off * MaxOfCounts

\* an entry whose relative population is exactly theta_off > 0 was dropped
C8_Witness ==
  /\ Filtered
  /\ mit.theta_off > 0
  /\ \E i \in 1 .. Len(raw_counts) :
       /\ Count(i) * 1000 = mit.theta_off * MaxOfCounts
       /\ raw_counts[i].k \notin Keys(res.val)
  /\ Len(res.val) > 0

\* C9 (as claimed): for a histogram with total > 0 the result has at least
\* one key, whatever theta_off the mitigator was constructed with.
C9_NeverEmpty ==
  (Filtered /\ Total > 0) => (res.exc = "none" /\ Len(res.val) >= 1)

SameDict(a, b) ==
  /\ Keys(a) = Keys(b)
  /\ \A i \in 1 .. Len(a), j \in 1 .. Len(b) : a[i].k = b[j].k => a[i].v = b[j].v

\* C10 (as claimed): for a histogram with total > 0, the filter applied to
\* its own output returns a dict with the same keys and the same
\* probabilities.
C10_Idempotent ==
  (pcB = "refiltered" /\ Total > 0) =>
    (res2.exc = "none" /\ SameDict(res2.val, res.val))

\* the total of the counts of the entries the filter kept
RECURSIVE RetainedUpTo(_)
RetainedUpTo(i) ==
  IF i = 0 THEN 0
  ELSE (IF raw_counts[i].k \in Keys(res.val) THEN Count(i) ELSE 0)
       + RetainedUpTo(i - 1)

RetainedTotal == RetainedUpTo(Len(raw_counts))

\* C11 (as claimed): for a histogram with total > 0 every key of the result
\* has probability count / (sum of the retained counts), and the
\* probabilities of the result sum to 1.
C11_Renormalized ==
  (Filtered /\ Total > 0) =>
    /\ res.exc = "none"
    /\ \A i \in 1 .. Len(raw_counts), j \in 1 .. Len(res.val) :
         raw_counts[i].k = res.val[j].k =>
           res.val[j].v.n * RetainedTotal = Count(i) * res.val[j].v.d
    /\ SumValues(res.val) = Rat(1, 1)

\* C12 (as claimed): for a histogram with total > 0 every key of the result
\* has probability > 0, also when theta_off <= 0.
C12_PositiveMass ==
  (Filtered /\ Total > 0) =>
    /\ res.exc = "none"
    /\ \A j \in 1 .. Len(res.val) : res.val[j].v.n > 0

\* C13 (as claimed): the filter applied to an empty histogram, or to one
\* whose counts are all zero, raises EmptyDistribution.
C13_EmptyDistributionError ==
  (Filtered /\ (Len(raw_in) = 0 \/ Total = 0)) =>
    res.exc = "EmptyDistribution"

Measured == pcB = "measured"

\* C15: two mitigators that differ only in theta_on and/or tau return the
\* same result from minimize_free_energy on the same histogram, and the
\* same margins from calculate_confidence_intervals.
C15_ThetaOnTauUnused ==
  /\ Filtered \/ Measured => res_b = res
  /\ Measured => margin_b = margin

\* two instances with different theta_on and tau, a histogram from which an
\* entry was dropped, and the margins taken
C15_Witness ==
  /\ Measured
  /\ mit_b.theta_on # mit.theta_on /\ mit_b.tau # mit.tau
  /\ mit_b.theta_off = mit.theta_off
  /\ Len(res.val) >= 1 /\ Len(res.val) < Len(raw_counts)
  /\ margin_b = margin

SingleEntry ==
  Len(res.val) = 1 /\ res.val[1].v = Rat(1, 1)

\* C16: calculate_confidence_intervals on a single-entry distribution
\* {label: 1.0} returns (0.0, 0.0): its entropy is 0, max_entropy is 1.0,
\* and confidence is 1.0.
C16_SingleEntryMargin ==
  (Measured /\ SingleEntry) =>
    /\ margin = <<Rat(0, 1), Rat(0, 1)>>
    /\ entropy(values(res.val)) = Rat(0, 1)
    /\ max_entropy(values(res.val)) = Rat(1, 1)
    /\ confidence(values(res.val)) = Rat(1, 1)

\* margins taken of a single-entry result that came from a histogram of
\* several entries
C16_Witness ==
  /\ Measured /\ SingleEntry
  /\ Len(raw_counts) > 1
  /\ margin = <<Rat(0, 1), Rat(0, 1)>>

\* C17 (as claimed): for every distribution passed to
\* calculate_confidence_intervals the pair returned is symmetric, both
\* components equal (1 - confidence) * 0.5 with confidence in [0, 1], and
\* both lie in [0, 0.5].
C17_SymmetricClampedMargin ==
  Measured =>
    LET c == confidence(values(res.val)) IN
    /\ margin[1] = margin[2]
    /\ c.n >= 0 /\ ~RLess(Rat(1, 1), c)
    /\ margin[1] = RMul(RSub(Rat(1, 1), c), Rat(1, 2))
    /\ margin[1].n >= 0 /\ ~RLess(Rat(1, 2), margin[1])
    /\ margin[2].n >= 0 /\ ~RLess(Rat(1, 2), margin[2])

\* ---- the observables on a distribution

\* the largest qubit index passed in observable_qubits
MaxQubit == 2

\* a distribution with probabilities as values
ProbEntry(k, n, d) == [k |-> k, v |-> Rat(n, d)]

ExampleDistributions ==
  { <<ProbEntry("00", 3, 5), ProbEntry("11", 2, 5)>>,
    <<ProbEntry("01", 1, 4), ProbEntry("10", 1, 4), ProbEntry("11", 1, 2)>> }

Distributions ==
  UNION {DictsOfLen(n) : n \in 0 .. MaxKeys} \cup ExampleDistributions

\* lists of at most two distinct qubit indices, in either order
QubitLists ==
  {<<>>} \cup {<<q>> : q \in 0 .. MaxQubit}
  \cup ({<<p, q>> : p, q \in 0 .. MaxQubit} \ {<<q, q>> : q \in 0 .. MaxQubit})

InitObs ==
  /\ FilterIdle
  /\ MitigatorIdle
  /\ ExtrasIdle
  /\ dist \in Distributions
  /\ observable_qubits \in QubitLists
  /\ obs = Returned(<<>>)
  /\ pcO = "start"

\* obs, err = compute_observable(counts, OBSERVABLE_QUBITS)
ComputeObservable ==
  /\ pcO = "start"
  /\ obs' = compute_observable(dist, observable_qubits)
  /\ pcO' = "observed"
  /\ UNCHANGED <<dist, observable_qubits>>
  /\ UNCHANGED <<fvars, bvars, xvars>>

\* raw_obs, raw_err = compute_observable(counts, num_qubits)
ComputeObservableVqe ==
  /\ pcO = "start"
  /\ obs' = compute_observable_vqe(dist, 2)
  /\ pcO' = "observed_vqe"
  /\ UNCHANGED <<dist, observable_qubits>>
  /\ UNCHANGED <<fvars, bvars, xvars>>

\* observable_val = calculate_expectation(mitigated_probs)
CalculateExpectation ==
  /\ pcO = "start"
  /\ obs' = Returned(<<calculate_expectation(dist)>>)
  /\ pcO' = "expectation"
  /\ UNCHANGED <<dist, observable_qubits>>
  /\ UNCHANGED <<fvars, bvars, xvars>>

NextObs == ComputeObservable \/ ComputeObservableVqe \/ CalculateExpectation

SpecObs == InitObs /\ [][NextObs]_vars

Observed == pcO = "observed"

\* the indices of the list, as a set
Indices(qs) == {qs[i] : i \in 1 .. Len(qs)}

Width(label) == Len(chars(label))

\* every index of the list is a bit position of every label of dist
InRange ==
  \A i \in 1 .. Len(dist), q \in Indices(observable_qubits) :
    q < Width(dist[i].k)

\* +1 when the bits of the label at the indices have even joint parity;
\* index 0 is the last character of the label
Eigenvalue(label, S) ==
  LET ones == {q \in S : chars(label)[Width(label) - q] = 1} IN
  IF Cardinality(ones) % 2 = 0 THEN 1 ELSE -1

\* the sum over the first i labels of eigenvalue * (value / total)
RECURSIVE ParityMass(_, _)
ParityMass(i, S) ==
  IF i = 0 THEN Rat(0, 1)
  ELSE RAdd(ParityMass(i - 1, S),
            RMul(Rat(Eigenvalue(dist[i].k, S), 1),
                 RDiv(dist[i].v, SumValues(dist))))

AllBits(label) == 0 .. (Width(label) - 1)

\* the sum over the first i labels of eigenvalue over all bits * value
RECURSIVE FullParityMass(_)
FullParityMass(i) ==
  IF i = 0 THEN Rat(0, 1)
  ELSE RAdd(FullParityMass(i - 1),
            RMul(Rat(Eigenvalue(dist[i].k, AllBits(dist[i].k)), 1), dist[i].v))

\* C18: on a distribution with total > 0 and indices inside the labels'
\* width, compute_observable returns the sum over the labels of (+1 for even
\* joint parity of the bits at the indices, else -1) * value / total; the
\* value lies in [-1, 1], and is exactly 1 when every label has even parity.
\* calculate_expectation returns the same sum over all bits of the label.
C18_ParityExpectation ==
  /\ (Observed /\ SumValues(dist).n > 0 /\ InRange) =>
       LET S == Indices(observable_qubits)
           e == obs.val[1] IN
       /\ obs.exc = "none"
       /\ e = ParityMass(Len(dist), S)
       /\ ~RLess(e, Rat(-1, 1)) /\ ~RLess(Rat(1, 1), e)
       /\ (\A i \in 1 .. Len(dist) : Eigenvalue(dist[i].k, S) = 1)
            => e = Rat(1, 1)
  /\ pcO = "expectation" => obs.val[1] = FullParityMass(Len(dist))

\* two indices, a label of odd parity and one of even parity, both with mass
C18_Witness ==
  /\ Observed /\ InRange
  /\ Len(observable_qubits) = 2
  /\ \E i, j \in 1 .. Len(dist) :
       /\ dist[i].v.n > 0 /\ dist[j].v.n > 0
       /\ Eigenvalue(dist[i].k, Indices(observable_qubits)) = 1
       /\ Eigenvalue(dist[j].k, Indices(observable_qubits)) = -1
  /\ obs.val[1] = ParityMass(Len(dist), Indices(observable_qubits))

\* C19 (as claimed): compute_observable called with an index outside the
\* bit-width of a label of the distribution fails with
\* ObservableIndexOutOfRange.
C19_IndexOutOfRangeRejected ==
  (Observed /\ ~InRange) => obs.exc = "ObservableIndexOutOfRange"

\* C20 (as claimed): compute_observable called on an empty or zero-mass
\* distribution fails with EmptyDistribution and returns no value.
C20_EmptyDistributionRejected ==
  (pcO \in {"observed", "observed_vqe"} /\ SumValues(dist).n = 0) =>
    obs.exc = "EmptyDistribution"

-----------------------------------------------------------------------------
(* Invariants of the hysteresis filter's channels *)

\* C25: in every state reached by construction, reset and update calls with
\* observations in {0,1}, every channel has state INACTIVE or ACTIVE, a
\* dwell count that is a non-negative integer, and an EMA within [0,1].
C25_ChannelTypes ==
  \A j \in Channels :
    /\ flt.state[j] \in {INACTIVE, ACTIVE}
    /\ flt.dwell[j] \in Nat
    /\ flt.ema[j] >= 0 /\ flt.ema[j] <= Scale

\* one channel ACTIVE, the other INACTIVE with a running dwell count, both
\* EMAs strictly inside (0,1)
C25_Witness ==
  /\ Completed
  /\ \E j, k \in Channels :
       /\ flt.state[j] = ACTIVE /\ flt.state[k] = INACTIVE
       /\ flt.dwell[k] > 0
       /\ flt.ema[j] > 0 /\ flt.ema[j] < Scale
       /\ flt.ema[k] > 0 /\ flt.ema[k] < Scale

\* C28: after every update that returns, with tau >= 1, each channel has
\* 0 <= dwell_count < tau; dwell_count is 0 when the channel is ACTIVE; and
\* a non-zero dwell_count belongs to an INACTIVE channel and equals the
\* number of most recent consecutive updates that left its EMA >= theta_on.
C28_DwellCounter ==
  (Completed /\ flt.tau >= 1) =>
    \A j \in Channels :
      /\ flt.dwell[j] >= 0 /\ flt.dwell[j] < flt.tau
      /\ flt.state[j] = ACTIVE => flt.dwell[j] = 0
      /\ flt.dwell[j] # 0 =>
           /\ flt.state[j] = INACTIVE
           /\ flt.ema[j] >= Thr(flt.theta_on)
           /\ flt.dwell[j] = qual[j]

\* tau = 3: one channel two qualifying updates into its dwell, the other
\* ACTIVE with its count cleared
C28_Witness ==
  /\ Completed
  /\ flt.tau = 3
  /\ \E j, k \in Channels :
       /\ flt.state[j] = INACTIVE /\ flt.dwell[j] = 2 /\ qual[j] = 2
       /\ flt.state[k] = ACTIVE /\ flt.dwell[k] = 0

-----------------------------------------------------------------------------
(* The per-channel sequential algorithm: channel by channel in index order, *)
(* the channel's EMA is updated, then its threshold and dwell logic runs on *)
(* the new EMA, then its state is emitted.                                  *)

\* the algorithm's steps for channel j on the filter g, with observation b:
\* the filter after them and the emitted bit
SequentialChannel(g, j, b) ==
  LET P == ((g.ema_alpha_inv - 1) * g.ema[j] + b * Scale) \div g.ema_alpha_inv
      d == g.dwell[j]
      rising == g.state[j] = INACTIVE /\ P >= Thr(g.theta_on)
      confirmed == rising /\ d + 1 >= g.tau
      falling == g.state[j] = ACTIVE /\ P <= Thr(g.theta_off)
      s == IF confirmed THEN ACTIVE
           ELSE IF falling THEN INACTIVE
           ELSE g.state[j]
      dw == IF confirmed \/ falling THEN 0
            ELSE IF rising THEN d + 1
            ELSE IF g.state[j] = INACTIVE THEN 0
            ELSE d IN
  [f    |-> [g EXCEPT !.ema[j] = P, !.state[j] = s, !.dwell[j] = dw],
   emit |-> s]

\* the algorithm applied to channels 0 .. n-1 in index order
RECURSIVE SequentialUpTo(_, _, _)
SequentialUpTo(g, raw, n) ==
  IF n = 0 THEN [f |-> g, out |-> <<>>]
  ELSE LET before == SequentialUpTo(g, raw, n - 1)
           step == SequentialChannel(before.f, n - 1, raw[n]) IN
       [f |-> step.f, out |-> Append(before.out, step.emit)]

SequentialUpdate(g, raw) == SequentialUpTo(g, raw, g.num_stabilizers)

\* C24: for every observation list of the right length and every reachable
\* state, update leaves every channel as the per-channel sequential
\* algorithm does, and returns one bit per channel, equal to the channel's
\* state after the update.
C24_SequentialEquivalent ==
  (lastOp = "update" /\ Len(lastRaw) = pre.num_stabilizers) =>
    LET seq == SequentialUpdate(pre, lastRaw) IN
    /\ exc = "none"
    /\ flt = seq.f
    /\ DOMAIN ret = Channels
    /\ \A j \in Channels : ret[j] = seq.out[j + 1] /\ ret[j] = flt.state[j]

\* an update at which one channel rises and the other falls
C24_Witness ==
  /\ Completed
  /\ Len(lastRaw) = pre.num_stabilizers
  /\ flt = SequentialUpdate(pre, lastRaw).f
  /\ \E j, k \in Channels :
       /\ pre.state[j] = INACTIVE /\ flt.state[j] = ACTIVE
       /\ pre.state[k] = ACTIVE /\ flt.state[k] = INACTIVE

-----------------------------------------------------------------------------
(* A run of measurements, as analyze_circuit makes it: the filter is reset  *)
(* and then given one update per measurement with the measurement's error   *)
(* bit on both channels.  The time series of a round is a block of equal    *)
(* syndromes per key of its counts, so the error bit changes only at the    *)
(* end of a block; the last block is as long as the run lasts.              *)

\* changes of the error bit explored in a run
MaxSwitches == 2

\* resets explored in a run
MaxResets == 1

\* the number up to which updates are counted
CountCap == 40

\* H2QFilter(theta_on=0.8, theta_off=0.3, tau=10) of main, and two filters
\* with a low theta_on
RunConfigs == { <<800, 300, 10>>, <<100, 85, 2>>, <<100, 85, 1>> }

\* the lengths a block may have when the error bit changes after it
BlockLengths(f) ==
  IF f.tau = 10 THEN {11, 25} ELSE {1, 2, 8}

\* v + 1, counted up to CountCap
Counted(v) == IF v < CountCap THEN v + 1 ELSE CountCap

InitRun ==
  /\ \E c \in RunConfigs :
       /\ flt = reset(H2QFilter(c[1], c[2], c[3]))
       /\ flt2 = H2QFilter(c[1], c[2], c[3])
       /\ pre = H2QFilter(c[1], c[2], c[3])
  /\ ret = NoRet /\ ret2 = NoRet
  /\ exc = "none" /\ exc2 = "none"
  /\ lastOp = "reset"
  /\ lastRaw = <<>>
  /\ nUpd = 0 /\ nBad = 0
  /\ qual = [j \in Channels |-> 0]
  /\ everReset = TRUE
  /\ chan = 0
  /\ MitigatorIdle
  /\ ObservableIdle
  /\ RunIdle
  /\ DriverIdle
  /\ HeapIdle

\* error_bit = 1 if is_error_syndrome(syndrome_str) else 0;
\* filtered = h2q_filter.update([error_bit, error_bit])
Measure(b) ==
  LET r == update(flt, <<b, b>>)
      n == Counted(sinceReset) IN
  /\ flt' = r.f /\ ret' = r.ret /\ exc' = r.exc
  /\ pre' = flt
  /\ lastOp' = "update"
  /\ lastRaw' = <<b, b>>
  /\ qual' = [j \in Channels |->
                IF qual_after(flt, r.f, qual)[j] < CountCap
                THEN qual_after(flt, r.f, qual)[j] ELSE CountCap]
  /\ error_bit' = b
  /\ runLen' = IF b = error_bit THEN Counted(runLen) ELSE 1
  /\ sinceReset' = n
  /\ sinceFall' =
       [j \in Channels |->
          IF flt.state[j] = ACTIVE /\ r.f.state[j] = INACTIVE THEN 0
          ELSE IF sinceFall[j] < 0 THEN -1
          ELSE Counted(sinceFall[j])]
  /\ firstReach' =
       [j \in Channels |->
          IF firstReach[j] = 0 /\ sinceReset < CountCap
             /\ r.f.ema[j] >= Thr(flt.theta_on)
          THEN n ELSE firstReach[j]]
  /\ firstActive' =
       [j \in Channels |->
          IF firstActive[j] = 0 /\ sinceReset < CountCap
             /\ r.f.state[j] = ACTIVE
          THEN n ELSE firstActive[j]]
  /\ allOnes' = (allOnes /\ b = 1)
  /\ UNCHANGED <<flt2, ret2, exc2, nUpd, nBad, everReset, chan, nReset>>
  /\ UNCHANGED <<bvars, ovars, dvars, hvars>>

\* the next measurement of the running block, or the first of the run
MeasureSame ==
  /\ \E b \in Bits : (error_bit = -1 \/ b = error_bit) /\ Measure(b)
  /\ UNCHANGED nSwitch

\* the first measurement of the next block
MeasureSwitch ==
  /\ error_bit \in Bits
  /\ runLen \in BlockLengths(flt)
  /\ nSwitch < MaxSwitches
  /\ Measure(1 - error_bit)
  /\ nSwitch' = nSwitch + 1

\* h2q_filter.reset() at the start of the next circuit, the last block of
\* the circuit before it being complete
RunReset ==
  /\ nReset < MaxResets
  /\ runLen \in BlockLengths(flt)
  /\ flt' = reset(flt)
  /\ pre' = flt
  /\ ret' = NoRet /\ exc' = "none"
  /\ lastOp' = "reset"
  /\ lastRaw' = <<>>
  /\ qual' = [j \in Channels |-> 0]
  /\ error_bit' = -1
  /\ runLen' = 0
  /\ sinceReset' = 0
  /\ sinceFall' = [j \in Channels |-> -1]
  /\ firstReach' = [j \in Channels |-> 0]
  /\ firstActive' = [j \in Channels |-> 0]
  /\ allOnes' = TRUE
  /\ nReset' = nReset + 1
  /\ UNCHANGED <<flt2, ret2, exc2, nUpd, nBad, everReset, chan, nSwitch>>
  /\ UNCHANGED <<bvars, ovars, dvars, hvars>>

NextRun == MeasureSame \/ MeasureSwitch \/ RunReset

SpecRun == InitRun /\ [][NextRun]_vars

\* the run with fair scheduling: the measurements of the time series keep
\* being processed
SpecRunLive == SpecRun /\ WF_vars(MeasureSame)

Shipped(f) == f.theta_on = 800 /\ f.theta_off = 300 /\ f.tau = 10

\* C27: with theta_off < theta_on and tau >= 1, a channel that fell from
\* ACTIVE to INACTIVE is not ACTIVE again before at least tau further updates
\* have been applied.
C27_NoOscillation ==
  (flt.theta_off < flt.theta_on /\ flt.tau >= 1) =>
    \A j \in Channels :
      (flt.state[j] = ACTIVE /\ sinceFall[j] >= 0) => sinceFall[j] >= flt.tau

\* a channel rising again exactly tau updates after its fall, tau >= 2
C27_Witness ==
  /\ Completed
  /\ flt.tau >= 2
  /\ \E j \in Channels :
       /\ pre.state[j] = INACTIVE /\ flt.state[j] = ACTIVE
       /\ sinceFall[j] = flt.tau

\* C29: from construction or reset, every channel's returned bit is 0 for
\* the first tau - 1 updates; a channel is first ACTIVE no earlier than
\* update k + tau - 1, k being the first update that leaves its EMA >=
\* theta_on; with theta_on = 0.8 and tau = 10 under constant 1 input, k is 16
\* and the channel is first ACTIVE at update 25.
C29_NoEarlyActivation ==
  \A j \in Channels :
    /\ (lastOp = "update" /\ sinceReset < CountCap
        /\ sinceReset <= flt.tau - 1) => ret[j] = 0
    /\ firstActive[j] # 0 =>
         /\ firstReach[j] # 0
         /\ firstActive[j] >= firstReach[j] + flt.tau - 1
    /\ (Shipped(flt) /\ allOnes /\ sinceReset > 0 /\ sinceReset < CountCap) =>
         /\ (flt.state[j] = ACTIVE) <=> (sinceReset >= 25)
         /\ sinceReset >= 25 => (firstReach[j] = 16 /\ firstActive[j] = 25)

\* the 25th update of the shipped filter under constant 1 input
C29_Witness ==
  /\ Completed
  /\ Shipped(flt) /\ allOnes
  /\ sinceReset = 25
  /\ \A j \in Channels : pre.state[j] = INACTIVE /\ flt.state[j] = ACTIVE

\* C30: if from some update on every observation is the same bit b, then
\* from some later update on the state of every channel is b.
C30_EventualTracking ==
  \A b \in Bits :
    <>[](error_bit = b) => <>[](\A j \in Channels : flt.state[j] = b)

\* a long last block of 1 after a fall, with every channel ACTIVE again
C30_Witness ==
  /\ nSwitch = MaxSwitches
  /\ error_bit = 1
  /\ runLen = CountCap
  /\ \A j \in Channels : flt.state[j] = ACTIVE /\ sinceFall[j] >= 0

-----------------------------------------------------------------------------
(* The analysis driver: main constructs one filter and calls                *)
(* analyze_circuit with it for one circuit after the other.  flt is that    *)
(* shared filter; flt2 is a filter constructed for the circuit at hand and  *)
(* given the same circuit, and h2q_fp_alone is the count it gives.          *)

\* measurements of a circuit, all its rounds together
MaxSeries == 27

Syndromes == {"00", "01", "10", "11"}

DriverConfigs == { <<800, 300, 10>>, <<100, 85, 2>> }

InitDriver ==
  /\ \E c \in DriverConfigs :
       /\ flt = H2QFilter(c[1], c[2], c[3])
       /\ flt2 = H2QFilter(c[1], c[2], c[3])
       /\ pre = H2QFilter(c[1], c[2], c[3])
  /\ ret = NoRet /\ ret2 = NoRet
  /\ exc = "none" /\ exc2 = "none"
  /\ lastOp = "init"
  /\ lastRaw = <<>>
  /\ nUpd = 0 /\ nBad = 0
  /\ qual = [j \in Channels |-> 0]
  /\ everReset = FALSE
  /\ chan = 0
  /\ MitigatorIdle
  /\ ObservableIdle
  /\ RunIdle
  /\ HeapIdle
  /\ pcD = "between"
  /\ h2q_fp = 0
  /\ h2q_fp_alone = 0
  /\ total_measurements = 0
  /\ carried = FALSE

\* result = analyze_circuit(pub_data, h2q_filter), up to its loops
AnalyzeCircuit ==
  /\ pcD \in {"between", "returned"}
  /\ flt' = h2q_filter_at_entry(flt)
  /\ flt2' = h2q_filter_at_entry(H2QFilter(flt.theta_on, flt.theta_off, flt.tau))
  /\ pre' = flt
  /\ carried' = \E j \in Channels : flt.state[j] = ACTIVE
  /\ ret' = NoRet /\ ret2' = NoRet
  /\ exc' = "none" /\ exc2' = "none"
  /\ lastOp' = "reset"
  /\ lastRaw' = <<>>
  /\ h2q_fp' = 0 /\ h2q_fp_alone' = 0
  /\ total_measurements' = 0
  /\ error_bit' = -1 /\ runLen' = 0 /\ nSwitch' = 0
  /\ pcD' = "in_circuit"
  /\ UNCHANGED <<nUpd, nBad, qual, everReset, chan>>
  /\ UNCHANGED <<nReset, sinceReset, sinceFall, firstReach, firstActive, allOnes>>
  /\ UNCHANGED <<bvars, ovars, hvars>>

\* one pass of the loop over time_series, for a syndrome with error bit b
Process(b) ==
  LET r == update(flt, <<b, b>>)
      r2 == update(flt2, <<b, b>>) IN
  /\ pcD = "in_circuit"
  /\ total_measurements < MaxSeries
  /\ flt' = r.f /\ ret' = r.ret /\ exc' = r.exc
  /\ flt2' = r2.f /\ ret2' = r2.ret /\ exc2' = r2.exc
  /\ pre' = flt
  /\ lastOp' = "update"
  /\ lastRaw' = <<b, b>>
  /\ h2q_fp' = fp_after(h2q_fp, r.ret)
  /\ h2q_fp_alone' = fp_after(h2q_fp_alone, r2.ret)
  /\ total_measurements' = total_measurements + 1
  /\ error_bit' = b
  /\ runLen' = IF b = error_bit THEN Counted(runLen) ELSE 1
  /\ UNCHANGED <<nUpd, nBad, qual, everReset, chan, pcD, carried>>
  /\ UNCHANGED <<nReset, sinceReset, sinceFall, firstReach, firstActive, allOnes>>
  /\ UNCHANGED <<bvars, ovars, hvars>>

\* the next syndrome of the running block, or the first of the circuit
ProcessSame ==
  /\ \E syndrome_str \in Syndromes :
       LET b == IF is_error_syndrome(syndrome_str) THEN 1 ELSE 0 IN
       (error_bit = -1 \/ b = error_bit) /\ Process(b)
  /\ UNCHANGED nSwitch

\* the first syndrome of the next block
ProcessSwitch ==
  /\ error_bit \in Bits
  /\ runLen \in BlockLengths(flt)
  /\ nSwitch < MaxSwitches
  /\ \E syndrome_str \in Syndromes :
       LET b == IF is_error_syndrome(syndrome_str) THEN 1 ELSE 0 IN
       b # error_bit /\ Process(b)
  /\ nSwitch' = nSwitch + 1

\* analyze_circuit returns its counts
Return ==
  /\ pcD = "in_circuit"
  /\ pcD' = "returned"
  /\ UNCHANGED <<fvars, bvars, ovars, rvars, hvars>>
  /\ UNCHANGED <<h2q_fp, h2q_fp_alone, total_measurements, carried>>

NextDriver == AnalyzeCircuit \/ ProcessSame \/ ProcessSwitch \/ Return

SpecDriver == InitDriver /\ [][NextDriver]_vars

\* C23: the h2q_fp count analyze_circuit returns for a circuit, and every
\* list update returns while the circuit is processed, is what a filter
\* constructed for this circuit gives, whatever circuits the shared filter
\* analyzed before; the filter enters every circuit with all channels
\* INACTIVE, dwell 0 and EMA 0.
C23_NoLeakBetweenCircuits ==
  /\ pcD \in {"in_circuit", "returned"} =>
       /\ h2q_fp = h2q_fp_alone
       /\ lastOp = "update" => ret = ret2
  /\ (pcD = "in_circuit" /\ lastOp = "reset") =>
       (AllZero(flt.state) /\ AllZero(flt.dwell) /\ AllZero(flt.ema))

\* a circuit entered with an ACTIVE channel left by the circuit before, in
\* which the filter stayed INACTIVE for some measurements and counted others
C23_Witness ==
  /\ pcD = "returned"
  /\ carried
  /\ h2q_fp > 0
  /\ h2q_fp < total_measurements
  /\ h2q_fp = h2q_fp_alone

-----------------------------------------------------------------------------
(* Two filter instances, a and b, called in any interleaving.  flt is the   *)
(* filter a would be if it were given its own calls alone, flt2 likewise    *)
(* for b; ret and exc are what the last call on an instance gave, ret2 and  *)
(* exc2 what the same call gave on the filter run alone.                    *)

\* calls explored on the two instances together
MaxCalls == 4

\* constructor arguments of a and of b
InstanceConfigs ==
  { << <<100, 85, 1>>, <<100, 85, 2>> >>, << <<100, 85, 1>>, <<100, 85, 1>> >> }

Other(n) == IF n = "a" THEN "b" ELSE "a"

InitInstances ==
  \E c \in InstanceConfigs :
    LET a == construct([i \in ObjIds |-> NoList], c[1][1], c[1][2], c[1][3], {})
        b == construct(a.heap, c[2][1], c[2][2], c[2][3], {a.obj}) IN
    /\ heap = b.heap
    /\ inst = [n \in InstanceNames |-> IF n = "a" THEN a.obj ELSE b.obj]
    /\ who = "none"
    /\ nCalls = 0
    /\ other_pre = <<>>
    /\ flt = H2QFilter(c[1][1], c[1][2], c[1][3])
    /\ flt2 = H2QFilter(c[2][1], c[2][2], c[2][3])
    /\ pre = H2QFilter(c[1][1], c[1][2], c[1][3])
    /\ ret = NoRet /\ ret2 = NoRet
    /\ exc = "none" /\ exc2 = "none"
    /\ lastOp = "init"
    /\ lastRaw = <<>>
    /\ nUpd = 0 /\ nBad = 0
    /\ qual = [j \in Channels |-> 0]
    /\ everReset = FALSE
    /\ chan = 0
    /\ MitigatorIdle
    /\ ObservableIdle
    /\ RunIdle
    /\ DriverIdle

\* inst[n].update(raw)
UpdateOn(n, raw) ==
  LET r == update_on(heap, inst[n], raw)
      alone == update(IF n = "a" THEN flt ELSE flt2, raw) IN
  /\ nCalls < MaxCalls
  /\ heap' = r.heap
  /\ ret' = r.ret /\ exc' = r.exc
  /\ ret2' = alone.ret /\ exc2' = alone.exc
  /\ flt' = IF n = "a" THEN alone.f ELSE flt
  /\ flt2' = IF n = "b" THEN alone.f ELSE flt2
  /\ other_pre' = view(heap, inst[Other(n)])
  /\ who' = n
  /\ lastOp' = "update"
  /\ lastRaw' = raw
  /\ nCalls' = nCalls + 1
  /\ UNCHANGED <<inst, pre, nUpd, nBad, qual, everReset, chan>>
  /\ UNCHANGED <<bvars, ovars, rvars, dvars>>

\* inst[n].reset()
ResetOn(n) ==
  LET r == assign_lists(heap, inst[n], {inst[Other(n)]}) IN
  /\ nCalls < MaxCalls
  /\ heap' = r.heap
  /\ inst' = [inst EXCEPT ![n] = r.obj]
  /\ ret' = NoRet /\ exc' = "none"
  /\ ret2' = NoRet /\ exc2' = "none"
  /\ flt' = IF n = "a" THEN reset(flt) ELSE flt
  /\ flt2' = IF n = "b" THEN reset(flt2) ELSE flt2
  /\ other_pre' = view(heap, inst[Other(n)])
  /\ who' = n
  /\ lastOp' = "reset"
  /\ lastRaw' = <<>>
  /\ nCalls' = nCalls + 1
  /\ UNCHANGED <<pre, nUpd, nBad, qual, everReset, chan>>
  /\ UNCHANGED <<bvars, ovars, rvars, dvars>>

UpdateInstance == \E n \in InstanceNames, raw \in ValidRaw : UpdateOn(n, raw)

ResetInstance == \E n \in InstanceNames : ResetOn(n)

NextInstances == UpdateInstance \/ ResetInstance

SpecInstances == InitInstances /\ [][NextInstances]_vars

\* C22: in every interleaving of update and reset calls on two instances,
\* the instances reference no common list, a call leaves the other
\* instance's state, dwell and EMA lists as they were, each instance is the
\* filter it would be had it been given its own calls alone, and each call
\* returns what it returns on that filter.
C22_NoSharedState ==
  /\ Referenced({inst["a"]}) \cap Referenced({inst["b"]}) = {}
  /\ view(heap, inst["a"]) = flt
  /\ view(heap, inst["b"]) = flt2
  /\ who # "none" =>
       /\ view(heap, inst[Other(who)]) = other_pre
       /\ ret = ret2 /\ exc = exc2

\* an update on a that leaves a channel of a ACTIVE while b, updated and
\* reset before, holds other values
C22_Witness ==
  /\ who = "a" /\ lastOp = "update"
  /\ nCalls >= 3
  /\ view(heap, inst["a"]).state[0] = ACTIVE
  /\ view(heap, inst["b"]).state[0] = INACTIVE
  /\ view(heap, inst["b"]).ema[0] > 0
  /\ view(heap, inst["b"]).ema[0] # view(heap, inst["a"]).ema[0]

-----------------------------------------------------------------------------
(* The population filter on the same histogram stored in another order.     *)

\* the dicts holding the entries of d, one for each insertion order
Orderings(d) ==
  { [i \in 1 .. Len(d) |-> d[p[i]]] : p \in Permutations(1 .. Len(d)) }

\* a dict as a mapping: its key-value pairs without their order
Mapping(d) == {<<d[i].k, d[i].v>> : i \in 1 .. Len(d)}

\* C26: whatever order the histogram's entries are stored in, the filter
\* raises the same exception or returns the same label-to-probability
\* mapping, labels tied for the maximum count included.
C26_OrderIndependent ==
  Filtered =>
    \A d \in Orderings(raw_in) :
      LET r == minimize_free_energy(mit, d) IN
      /\ r.exc = res.exc
      /\ Mapping(r.val) = Mapping(res.val)

\* two labels tie for the maximum count, the first stored entry is a rare
\* one and is dropped, both tied labels are kept
C26_Witness ==
  /\ Filtered
  /\ res.exc = "none"
  /\ Len(raw_in) = 3
  /\ \E i, j \in 1 .. 3 :
       /\ i # j
       /\ raw_in[i].v = raw_in[j].v
       /\ \A k \in 1 .. 3 : ~RLess(raw_in[i].v, raw_in[k].v)
       /\ RLess(raw_in[1].v, raw_in[i].v)
       /\ Keys(res.val) = {raw_in[i].k, raw_in[j].k}

-----------------------------------------------------------------------------
(* What apply_correction hands back for a histogram.                        *)

\* the names under which a call's outcome is held
Components(r) == DOMAIN r

\* C21 (as claimed): apply_correction on a histogram returns the filtered
\* distribution of that histogram followed by its confidence margin.
C21_ReturnsDistributionAndMargin ==
  (Filtered /\ res.exc = "none" /\ ExactLog2Domain(res.val)) =>
    /\ res = apply_correction(mit, raw_in)
    /\ res.val = minimize_free_energy(mit, raw_in).val
    /\ "margin" \in Components(res)
    /\ res.margin = calculate_confidence_intervals(mit, res.val)

====
